---------------------------- MODULE Spec2Model ----------------------------
(***************************************************************************)
(* State-machine model of the two arcade games of the repository:          *)
(*   snake.py        Snake, Food, Game (grid game with toroidal wraparound) *)
(*   flappy_bird.py  Bird, Blocks, Game (rectangle collision game)          *)
(* and of the coordinate grid of grid.py.                                   *)
(* One variable `game` says which program is running; the variables of the  *)
(* other programs keep their idle values.                                   *)
(***************************************************************************)
EXTENDS Integers, Sequences, FiniteSets, TLC

VARIABLES game, op, error, score, high_score, game_over,
          pc, event,
          body, direction, food,
          bird_width, bird_height, bird_y, move_up,
          blocks_x, blocks_y1, speed, gap_size,
          grid

\* pc:    where the main loop stands: "play" between two frames of Game.play,
\*        "replay" inside the wait of Game.replay that Game.draw enters
\* event: the input event the last step handled, "none" if it handled none
\* grid:  the Grid object of grid.py and the last cell looked up in it
commonVars == <<game, op, error, score, high_score, game_over, pc, event>>
snakeVars  == <<body, direction, food>>
flappyVars == <<bird_width, bird_height, bird_y, move_up,
                blocks_x, blocks_y1, speed, gap_size>>
vars       == <<game, op, error, score, high_score, game_over,
                pc, event,
                body, direction, food,
                bird_width, bird_height, bird_y, move_up,
                blocks_x, blocks_y1, speed, gap_size,
                grid>>

---------------------------------------------------------------------------
(* Bounds of the model.                                                     *)

\* snake.py:11 sets GRID_SIZE = 20; the model plays on a smaller torus.
GRID_SIZE == 3

\* Longest snake body the model lets grow (the program has no such limit).
MaxLen == 4

---------------------------------------------------------------------------
(* snake.py                                                                 *)

K_UP == "UP"
K_DOWN == "DOWN"
K_LEFT == "LEFT"
K_RIGHT == "RIGHT"
\* a key code that is none of the four arrow keys
K_OTHER == "OTHER"

ArrowKeys == {K_UP, K_DOWN, K_LEFT, K_RIGHT}
KeyCodes == ArrowKeys \cup {K_OTHER}

Cells == (0 .. GRID_SIZE - 1) \X (0 .. GRID_SIZE - 1)

Range(s) == {s[i] : i \in 1 .. Len(s)}

\* check_dict of Snake.set_direction, and the offsets of `lookup` in
\* Snake.update_location
check_dict(key) ==
    CASE key = K_DOWN  -> <<0, 1>>
      [] key = K_UP    -> <<0, -1>>
      [] key = K_LEFT  -> <<-1, 0>>
      [] key = K_RIGHT -> <<1, 0>>

\* lookup[self.direction]: the cell next to the head, before wraparound
lookup(head, dir) ==
    <<head[1] + check_dict(dir)[1], head[2] + check_dict(dir)[2]>>

\* i if i < GRID_SIZE else 0, then i if i >= 0 else GRID_SIZE-1
WrapAxisNoLow(i) == IF i < GRID_SIZE THEN i ELSE 0
WrapAxis(i) ==
    LET hi == IF i < GRID_SIZE THEN i ELSE 0
    IN  IF hi >= 0 THEN hi ELSE GRID_SIZE - 1

Wrap(cell) == <<WrapAxis(cell[1]), WrapAxis(cell[2])>>

NewHead(head, dir) == Wrap(lookup(head, dir))

\* Snake.set_direction: the direction after a request for `key`
SetDirectionResultOpposite(b, dir, key) ==
    IF key \notin ArrowKeys
    THEN dir
    ELSE IF Len(b) > 1 /\ check_dict(key) = <<-check_dict(dir)[1], -check_dict(dir)[2]>>
         THEN dir
         ELSE key
SetDirectionResultNoKeyCheck(b, dir, key) ==
    IF Len(b) > 1 /\ key \in ArrowKeys /\ lookup(b[1], key) = b[2]
    THEN dir
    ELSE key
SetDirectionResult(b, dir, key) ==
    IF key \notin ArrowKeys
    THEN dir
    ELSE IF Len(b) > 1 /\ lookup(b[1], key) = b[2]
         THEN dir
         ELSE key

\* body.insert(0, new_head), then body.pop() unless the head is on the food
BodyAfterMoveAlwaysPop(b, new_head, f) == <<new_head>> \o SubSeq(b, 1, Len(b) - 1)
BodyAfterMove(b, new_head, f) ==
    IF new_head = f
    THEN <<new_head>> \o b
    ELSE <<new_head>> \o SubSeq(b, 1, Len(b) - 1)

\* new_head in self.body[1:]
HitsBodyBeforePop(b_after, b_before, new_head) ==
    \E i \in 1 .. Len(b_before) : b_before[i] = new_head
HitsBodyNotLast(b_after, b_before, new_head) ==
    \E i \in 2 .. Len(b_after) - 1 : b_after[i] = new_head
HitsBody(b_after, b_before, new_head) ==
    \E i \in 2 .. Len(b_after) : b_after[i] = new_head

\* Food.set_location(body): the cells the rejection loop can end on
FoodLocationsOffTail(b) == Cells \ Range(Tail(b))
FoodLocationsAnyCell(b) == Cells
FoodLocations(b) == Cells \ Range(b)

\* Food.__init__: self.set_location([(0, 0)])
FoodInitLocations == FoodLocations(<< <<0, 0>> >>)

\* Game.update: self.score = len(self.snake.body) - 1
SnakeScoreIsLength(b) == Len(b)
SnakeScore(b) == Len(b) - 1

\* max(self.score, self.high_score)
NewHighScoreNoMax(s, hs) == s
NewHighScore(s, hs) == IF s > hs THEN s ELSE hs

\* values of the variables of the program that is not running
SnakeIdle ==
    /\ body = << >>
    /\ direction = K_UP
    /\ food = <<0, 0>>

FlappyIdle ==
    /\ bird_width = 0
    /\ bird_height = 0
    /\ bird_y = 0
    /\ move_up = "unassigned"
    /\ blocks_x = 0
    /\ blocks_y1 = 0
    /\ speed = 0
    /\ gap_size = 0

\* no Grid object: no arguments, no attributes, no lookup
NoGrid ==
    [args |-> <<0, 0, 0>>, made |-> FALSE,
     block_size |-> 0, game_width |-> 0, game_height |-> 0,
     width |-> 0, height |-> 0, grid_array |-> << >>,
     item |-> <<0, 0>>, pixel |-> <<0, 0>>]

GridIdle == grid = NoGrid

\* Game.draw: `if self.game_over:` enters the wait of replay(), otherwise the
\* frame ends and Game.play goes on
DrawNext(go) == IF go THEN "replay" ELSE "play"

\* Game.replay: the events the wait can see, one at a time
ReplayEvents == {"none", "KEYUP", "KEYDOWN", "QUIT"}

\* Game.replay: `elif event.type == pygame.KEYDOWN: replay = True`
ReplayDoneAnyKey(ev) == ev \in {"KEYDOWN", "KEYUP"}
ReplayDone(ev) == ev = "KEYDOWN"

\* Game.__init__: Snake(grid), Food(grid), score 0, high_score 0
SnakeInit ==
    /\ game = "snake"
    /\ op = "init"
    /\ error = "none"
    /\ pc = "play"
    /\ event = "none"
    /\ GridIdle
    /\ body \in {<<c>> : c \in Cells}
    /\ direction = K_UP
    /\ food \in FoodInitLocations
    /\ score = 0
    /\ high_score = 0
    /\ game_over = FALSE
    /\ FlappyIdle

\* Game.play: one KEYDOWN event of the frame's event list
SnakeSetDirection(key) ==
    /\ game = "snake"
    /\ error = "none"
    /\ pc = "play"
    /\ direction' = SetDirectionResult(body, direction, key)
    /\ op' = "set_direction"
    /\ event' = key
    /\ UNCHANGED <<game, error, score, high_score, game_over, pc, body, food>>
    /\ UNCHANGED flappyVars
    /\ UNCHANGED grid

\* Game.update: Snake.update_location inside try/except GameOver, then the
\* `if self.game_over:` of Game.draw
SnakeUpdate ==
    /\ game = "snake"
    /\ error = "none"
    /\ pc = "play"
    /\ LET new_head == NewHead(body[1], direction)
           eats     == new_head = food
           inserted == <<new_head>> \o body
           b_after  == BodyAfterMove(body, new_head, food)
       IN  /\ Len(b_after) <= MaxLen
           /\ body' = b_after
           /\ IF eats
              THEN food' \in FoodLocations(inserted)
              ELSE food' = food
           /\ IF HitsBody(b_after, body, new_head)
              THEN /\ game_over' = TRUE
                   /\ UNCHANGED <<score, high_score>>
              ELSE /\ game_over' = game_over
                   /\ score' = SnakeScore(b_after)
                   /\ high_score' = NewHighScore(SnakeScore(b_after), high_score)
    /\ pc' = DrawNext(game_over')
    /\ op' = "update"
    /\ event' = "none"
    /\ UNCHANGED <<game, error, direction>>
    /\ UNCHANGED flappyVars
    /\ UNCHANGED grid

\* Game.restart, and the self.draw() that follows it in Game.draw
SnakeRestartKeepsEntities ==
    /\ score' = 0
    /\ game_over' = FALSE
    /\ pc' = DrawNext(game_over')
    /\ op' = "restart"
    /\ UNCHANGED <<game, error, high_score, body, direction, food>>
SnakeRestart ==
    /\ body' \in {<<c>> : c \in Cells}
    /\ direction' = K_UP
    /\ food' \in FoodInitLocations
    /\ score' = 0
    /\ game_over' = FALSE
    /\ pc' = DrawNext(game_over')
    /\ op' = "restart"
    /\ UNCHANGED <<game, error, high_score>>

\* Game.draw with game_over set: one round of the loop of replay() on one
\* event.  A KEYDOWN ends the wait and restart() follows; a KEYUP or no event
\* leaves it waiting; a QUIT calls pygame.quit() and the next
\* pygame.event.get raises pygame.error, which ends the program.
SnakeReplay(ev) ==
    /\ game = "snake"
    /\ error = "none"
    /\ pc = "replay"
    /\ event' = ev
    /\ IF ReplayDone(ev)
       THEN SnakeRestart
       ELSE /\ op' = IF ev = "QUIT" THEN "error" ELSE "replay"
            /\ error' = IF ev = "QUIT" THEN "pygame.error" ELSE error
            /\ UNCHANGED <<game, score, high_score, game_over, pc>>
            /\ UNCHANGED snakeVars
    /\ UNCHANGED flappyVars
    /\ UNCHANGED grid

SnakeNext ==
    \/ \E key \in KeyCodes : SnakeSetDirection(key)
    \/ SnakeUpdate
    \/ \E ev \in ReplayEvents : SnakeReplay(ev)

SpecSnake == SnakeInit /\ [][SnakeNext]_vars

---------------------------------------------------------------------------
(* Food.set_location on its own: the rounds of its rejection loop, one      *)
(* random draw each, for bodies of every length up to the whole grid.       *)

\* the k-th cell, k from 1, of the path that runs along row 0 from left to
\* right, back along row 1, and so on
PathCell(k) ==
    LET r == (k - 1) \div GRID_SIZE
        i == (k - 1) % GRID_SIZE
    IN  <<IF r % 2 = 0 THEN i ELSE GRID_SIZE - 1 - i, r>>

\* snakes lying along a stretch of that path, the head first
FoodBodies ==
    {[j \in 1 .. n |-> PathCell(a + j - 1)] :
        a \in 1 .. GRID_SIZE * GRID_SIZE, n \in 1 .. GRID_SIZE * GRID_SIZE}
    \cap Seq(Cells)

\* Snake.update_location has inserted the new head, which is on the food,
\* and calls food.set_location(self.body)
FoodInit ==
    /\ game = "food"
    /\ op = "init"
    /\ error = "none"
    /\ pc = "set_location"
    /\ event = "none"
    /\ body \in FoodBodies
    /\ direction = K_UP
    /\ food = body[1]
    /\ score = 0
    /\ high_score = 0
    /\ game_over = FALSE
    /\ FlappyIdle
    /\ GridIdle

\* one round of the while loop of Food.set_location, the draw giving cell c:
\* `in body` keeps the loop going, otherwise the cell becomes the location
SetLocationDraw(c) ==
    /\ game = "food"
    /\ pc = "set_location"
    /\ IF c \in FoodLocations(body)
       THEN /\ food' = c
            /\ pc' = "play"
            /\ op' = "set_location"
       ELSE /\ op' = "rejected"
            /\ UNCHANGED <<food, pc>>
    /\ UNCHANGED <<game, error, score, high_score, game_over, event>>
    /\ UNCHANGED <<body, direction>>
    /\ UNCHANGED flappyVars
    /\ UNCHANGED grid

FoodNext == \E c \in Cells : SetLocationDraw(c)

SpecFood == FoodInit /\ [][FoodNext]_vars

\* random.choice is fair: a cell that can be drawn in every round of the loop
\* is drawn in some round
FoodFairness == \A c \in Cells : WF_vars(SetLocationDraw(c))

SpecFoodFair == SpecFood /\ FoodFairness

---------------------------------------------------------------------------
(* Snake.set_direction on its own: a Snake object whose two-cell body and   *)
(* direction a caller has set, and calls of set_direction on it.  The cells *)
(* are those around (5,5) of the 20 x 20 grid of snake.py, all interior.    *)

TestHeads == (4 .. 6) \X (4 .. 6)

\* a head and one of its four neighbours as the second segment
TestBodies == {<<h, lookup(h, d)>> : h \in TestHeads, d \in ArrowKeys}

SetDirectionInit ==
    /\ game = "set_direction"
    /\ op = "init"
    /\ error = "none"
    /\ pc = "play"
    /\ event = "none"
    /\ body \in TestBodies
    /\ direction \in ArrowKeys
    /\ food = <<0, 0>>
    /\ score = 1
    /\ high_score = 1
    /\ game_over = FALSE
    /\ FlappyIdle
    /\ GridIdle

\* snake.set_direction(key)
SetDirectionCall(key) ==
    /\ game = "set_direction"
    /\ direction' = SetDirectionResult(body, direction, key)
    /\ op' = "set_direction"
    /\ event' = key
    /\ UNCHANGED <<game, error, score, high_score, game_over, pc, body, food>>
    /\ UNCHANGED flappyVars
    /\ UNCHANGED grid

SetDirectionNext == \E key \in KeyCodes : SetDirectionCall(key)

SpecSetDirection == SetDirectionInit /\ [][SetDirectionNext]_vars

---------------------------------------------------------------------------
(* flappy_bird.py                                                           *)

GAME_WIDTH == 800
GAME_HEIGHT == 500
BLOCK_WIDTH == 50
BLOCK_STARTING_SPEED == 5
BLOCK_MAX_SPEED == 17
BLOCK_SPEED_INCREMENT == 3
BIRD_V_SPEED == 5
\* GAP_START_MULTIPLIER = 6.0 and GAP_DECREASE_DENOMINATOR = 10.0
GAP_START_MULTIPLIER == 6
GAP_DECREASE_DENOMINATOR == 10
\* GAP_MIN_MULTIPLIER = 2.5, kept as the fraction 5/2
GAP_MIN_MULTIPLIER_NUM == 5
GAP_MIN_MULTIPLIER_DEN == 2

\* Bird.__init__: x = int(0.2 * GAME_WIDTH), y = int(0.4 * GAME_HEIGHT)
BIRD_X == (2 * GAME_WIDTH) \div 10
BIRD_Y_START == (4 * GAME_HEIGHT) \div 10

\* Size of the sprite assets/flap.png, which Bird.__init__ reads; the image is
\* not part of the sources, so the sizes are inputs of the model.  For these
\* heights int(h * (6.0 - s / 10.0)) in IEEE doubles equals the exact quotient
\* for every score the difficulty curve evaluates it at.
BirdWidths == {40}
BirdHeights == {40}

\* A taller sprite the game is also run with: its gap sizes int(43 * 6.0)
\* and int(43 * 5.9) are more than GAME_HEIGHT / 2, and the doubles agree with
\* the exact quotient as above.
TallBirdHeights == {43}

\* Highest score the model lets a Flappy round reach.
MaxScore == 1

\* Highest score of the difficulty-curve specification.
CurveMaxScore == 100

\* int(): truncation toward zero of n / d, d > 0
IntDiv(n, d) == IF n >= 0 THEN n \div d ELSE -((-n) \div d)

\* first statement of Blocks.set_speed_and_size
SetSpeed(sp, s) ==
    IF sp <= BLOCK_MAX_SPEED
    THEN BLOCK_STARTING_SPEED + (s \div BLOCK_SPEED_INCREMENT)
    ELSE sp

\* second statement of Blocks.set_speed_and_size:
\* int(bird_height * (GAP_START_MULTIPLIER - score / GAP_DECREASE_DENOMINATOR))
SetGapSize(gap, h, s) ==
    IF GAP_MIN_MULTIPLIER_DEN * gap >= GAP_MIN_MULTIPLIER_NUM * h
    THEN IntDiv(h * (GAP_START_MULTIPLIER * GAP_DECREASE_DENOMINATOR - s),
                GAP_DECREASE_DENOMINATOR)
    ELSE gap

\* Blocks.__init__: y1 = int(GAME_HEIGHT/2 - bird_height/2)
BlocksInitY1(h) == IntDiv(GAME_HEIGHT - h, 2)
\* Blocks.__init__: _gap_size = GAME_HEIGHT/2
BlocksInitGapSize == GAME_HEIGHT \div 2

\* random.randint(gap_size, y2 - gap_size): the lower end and the middle of
\* the range stand for the draw; the set is empty when the range is
RandomY1(gap) ==
    IF gap > GAME_HEIGHT - gap
    THEN {}
    ELSE {gap, GAME_HEIGHT \div 2}

\* An axis-parallel rectangle Polygon([(x0,y0),(x0,y1),(x1,y1),(x1,y0)])
Rect(x0, y0, x1, y1) == [x0 |-> x0, y0 |-> y0, x1 |-> x1, y1 |-> y1]

\* Bird.get_polygon
BirdPolygon(y, w, h) == Rect(BIRD_X, y, BIRD_X + w, y + h)

\* Blocks.get_polygon
BottomBlockPolygon(x, y1) == Rect(x, 0, x + BLOCK_WIDTH, y1)
TopBlockPolygon(x, y1, gap) == Rect(x, y1 + gap, x + BLOCK_WIDTH, GAME_HEIGHT)

\* Game.get_polygon
GamePolygon == Rect(0, 0, GAME_WIDTH, GAME_HEIGHT)

\* shapely's a.intersects(b) for two such rectangles: the closed rectangles
\* have a point in common (a shared edge or corner counts)
IntersectsInterior(a, b) ==
    /\ a.x0 < b.x1 /\ b.x0 < a.x1
    /\ a.y0 < b.y1 /\ b.y0 < a.y1
Intersects(a, b) ==
    /\ a.x0 <= b.x1 /\ b.x0 <= a.x1
    /\ a.y0 <= b.y1 /\ b.y0 <= a.y1

\* the condition of Game.detect_collision
DetectCollision(y, w, h, x, y1, gap) ==
    \/ ~Intersects(BirdPolygon(y, w, h), GamePolygon)
    \/ Intersects(BirdPolygon(y, w, h), BottomBlockPolygon(x, y1))
    \/ Intersects(BirdPolygon(y, w, h), TopBlockPolygon(x, y1, gap))

\* the condition of Game.update_score
PassedBlocksNoLowerEnd(x, sp) == x + BLOCK_WIDTH <= BIRD_X
PassedBlocks(x, sp) ==
    /\ x + BLOCK_WIDTH <= BIRD_X
    /\ BIRD_X < x + BLOCK_WIDTH + sp

\* Game.update_score: `self.score += 1` under that condition
ScoreAfterTickOrZero(s, passed) == IF passed THEN s + 1 ELSE 0
ScoreAfterTick(s, passed) == IF passed THEN s + 1 ELSE s

\* Game.__init__: Bird(), Blocks(bird.height), score 0, high_score 0;
\* the local move_up of Game.play has no value yet
FlappyInit ==
    /\ game = "flappy"
    /\ op = "init"
    /\ error = "none"
    /\ pc = "play"
    /\ event = "none"
    /\ GridIdle
    /\ bird_width \in BirdWidths
    /\ bird_height \in BirdHeights \cup TallBirdHeights
    /\ bird_y = BIRD_Y_START
    /\ move_up = "unassigned"
    /\ blocks_x = GAME_WIDTH
    /\ blocks_y1 = BlocksInitY1(bird_height)
    /\ speed = 0
    /\ gap_size = BlocksInitGapSize
    /\ score = 0
    /\ high_score = 0
    /\ game_over = FALSE
    /\ SnakeIdle

\* What the event loop of one frame of Game.play does to move_up: no event
\* pending, the last event is KEYDOWN of K_UP, or the last event is another
FrameEvents == {"none", "KEYDOWN_K_UP", "other"}

MoveUpAfterEvents(mu, ev) ==
    IF ev = "none" THEN mu
    ELSE IF ev = "KEYDOWN_K_UP" THEN "True"
    ELSE "False"

\* One frame of Game.play: the event loop, then Game.update(move_up):
\* Bird.move_up / move_down, Blocks.update_location, update_score,
\* detect_collision; then the `if self.game_over:` of Game.draw.  Reading
\* move_up before any event has assigned it raises UnboundLocalError;
\* random.randint on an empty range raises ValueError (after x was reset);
\* either ends the program.
FlappyUpdate(ev) ==
    /\ game = "flappy"
    /\ pc = "play"
    /\ error = "none"
    /\ LET mu  == MoveUpAfterEvents(move_up, ev)
           y   == IF mu = "True" THEN bird_y - BIRD_V_SPEED
                                 ELSE bird_y + BIRD_V_SPEED
           sp  == SetSpeed(speed, score)
           gap == SetGapSize(gap_size, bird_height, score)
           on_screen == blocks_x + BLOCK_WIDTH > 0
           x   == IF on_screen THEN blocks_x - sp ELSE GAME_WIDTH
           s   == ScoreAfterTick(score, PassedBlocks(x, sp))
       IN  IF mu = "unassigned"
           THEN /\ error' = "UnboundLocalError"
                /\ op' = "error"
                /\ UNCHANGED <<bird_y, move_up, speed, gap_size, blocks_x,
                               blocks_y1, score, high_score, game_over, pc>>
           ELSE IF ~on_screen /\ RandomY1(gap) = {}
           THEN /\ error' = "ValueError"
                /\ op' = "error"
                /\ bird_y' = y
                /\ move_up' = mu
                /\ speed' = sp
                /\ gap_size' = gap
                /\ blocks_x' = GAME_WIDTH
                /\ UNCHANGED <<blocks_y1, score, high_score, game_over, pc>>
           ELSE /\ s <= MaxScore
                /\ bird_y' = y
                /\ move_up' = mu
                /\ speed' = sp
                /\ gap_size' = gap
                /\ blocks_x' = x
                /\ IF on_screen
                   THEN blocks_y1' = blocks_y1
                   ELSE blocks_y1' \in RandomY1(gap)
                /\ score' = s
                /\ high_score' = NewHighScore(s, high_score)
                /\ game_over' = (game_over \/
                                  DetectCollision(y, bird_width, bird_height,
                                                  x, blocks_y1', gap))
                /\ pc' = DrawNext(game_over')
                /\ op' = "update"
                /\ UNCHANGED error
    /\ event' = ev
    /\ UNCHANGED <<game, bird_width, bird_height>>
    /\ UNCHANGED snakeVars
    /\ UNCHANGED grid

\* Game.restart, and the self.draw() that follows it in Game.draw
FlappyRestart ==
    /\ bird_y' = BIRD_Y_START
    /\ blocks_x' = GAME_WIDTH
    /\ blocks_y1' = BlocksInitY1(bird_height)
    /\ speed' = 0
    /\ gap_size' = BlocksInitGapSize
    /\ score' = 0
    /\ game_over' = FALSE
    /\ pc' = DrawNext(game_over')
    /\ op' = "restart"
    /\ UNCHANGED <<game, error, high_score, bird_width, bird_height, move_up>>

\* Game.draw with game_over set: one round of the loop of replay() on one
\* event, as in snake.py
FlappyReplay(ev) ==
    /\ game = "flappy"
    /\ error = "none"
    /\ pc = "replay"
    /\ event' = ev
    /\ IF ReplayDone(ev)
       THEN FlappyRestart
       ELSE /\ op' = IF ev = "QUIT" THEN "error" ELSE "replay"
            /\ error' = IF ev = "QUIT" THEN "pygame.error" ELSE error
            /\ UNCHANGED <<game, score, high_score, game_over, pc>>
            /\ UNCHANGED flappyVars
    /\ UNCHANGED snakeVars
    /\ UNCHANGED grid

FlappyNext ==
    \/ \E ev \in FrameEvents : FlappyUpdate(ev)
    \/ \E ev \in ReplayEvents : FlappyReplay(ev)

SpecFlappy == FlappyInit /\ [][FlappyNext]_vars

---------------------------------------------------------------------------
(* The difficulty curve on its own: the calls of Blocks.set_speed_and_size  *)
(* along one round, the score rising by single points between calls.        *)

\* Blocks.__init__ at score 0
CurveInit ==
    /\ game = "curve"
    /\ op = "init"
    /\ error = "none"
    /\ pc = "play"
    /\ event = "none"
    /\ GridIdle
    /\ bird_width \in BirdWidths
    /\ bird_height \in BirdHeights
    /\ bird_y = BIRD_Y_START
    /\ move_up = "unassigned"
    /\ blocks_x = GAME_WIDTH
    /\ blocks_y1 = BlocksInitY1(bird_height)
    /\ speed = 0
    /\ gap_size = BlocksInitGapSize
    /\ score = 0
    /\ high_score = 0
    /\ game_over = FALSE
    /\ SnakeIdle

\* Blocks.update_location(score) calls set_speed_and_size(score)
CurveSetSpeedAndSize ==
    /\ game = "curve"
    /\ speed' = SetSpeed(speed, score)
    /\ gap_size' = SetGapSize(gap_size, bird_height, score)
    /\ op' = "set_speed_and_size"
    /\ UNCHANGED <<game, error, score, high_score, game_over, pc, event>>
    /\ UNCHANGED <<bird_width, bird_height, bird_y, move_up, blocks_x, blocks_y1>>
    /\ UNCHANGED snakeVars
    /\ UNCHANGED grid

\* Game.update_score: self.score += 1, after a tick has seen the old score
CurveScore ==
    /\ game = "curve"
    /\ op = "set_speed_and_size"
    /\ score < CurveMaxScore
    /\ score' = score + 1
    /\ high_score' = NewHighScore(score + 1, high_score)
    /\ op' = "score"
    /\ UNCHANGED <<game, error, game_over, pc, event>>
    /\ UNCHANGED flappyVars
    /\ UNCHANGED snakeVars
    /\ UNCHANGED grid

CurveNext ==
    \/ CurveSetSpeedAndSize
    \/ CurveScore

SpecCurve == CurveInit /\ [][CurveNext]_vars

---------------------------------------------------------------------------
(* The blocks and the score on their own: Blocks.update_location and        *)
(* Game.update_score tick after tick in a round the bird survives, over     *)
(* several passes and recycles.                                             *)

\* Highest score this specification lets the round reach.
PassMaxScore == 7

\* Blocks.__init__ and score 0
PassInit ==
    /\ game = "pass"
    /\ op = "init"
    /\ error = "none"
    /\ pc = "play"
    /\ event = "none"
    /\ GridIdle
    /\ bird_width \in BirdWidths
    /\ bird_height \in BirdHeights
    /\ bird_y = BIRD_Y_START
    /\ move_up = "unassigned"
    /\ blocks_x = GAME_WIDTH
    /\ blocks_y1 = BlocksInitY1(bird_height)
    /\ speed = 0
    /\ gap_size = BlocksInitGapSize
    /\ score = 0
    /\ high_score = 0
    /\ game_over = FALSE
    /\ SnakeIdle

\* self.blocks.update_location(self.score), then self.update_score()
PassTick ==
    /\ game = "pass"
    /\ LET sp  == SetSpeed(speed, score)
           gap == SetGapSize(gap_size, bird_height, score)
           on_screen == blocks_x + BLOCK_WIDTH > 0
           x   == IF on_screen THEN blocks_x - sp ELSE GAME_WIDTH
           s   == ScoreAfterTick(score, PassedBlocks(x, sp))
       IN  /\ s <= PassMaxScore
           /\ speed' = sp
           /\ gap_size' = gap
           /\ blocks_x' = x
           /\ IF on_screen
              THEN blocks_y1' = blocks_y1
              ELSE blocks_y1' \in RandomY1(gap)
           /\ score' = s
           /\ high_score' = NewHighScore(s, high_score)
    /\ op' = "tick"
    /\ UNCHANGED <<game, error, game_over, pc, event>>
    /\ UNCHANGED <<bird_width, bird_height, bird_y, move_up>>
    /\ UNCHANGED snakeVars
    /\ UNCHANGED grid

PassNext == PassTick

SpecPass == PassInit /\ [][PassNext]_vars

---------------------------------------------------------------------------
(* grid.py                                                                  *)

\* Largest width, height and block size (pixels) a Grid is constructed with.
MaxDim == 6

\* Grid.__init__: the condition of `raise ValueError`
NotDivisibleWidthOnly(w, h, bs) == (w % bs) # 0
NotDivisible(w, h, bs) == (w % bs) + (h % bs) # 0

\* [self.block_size * i for i in range(n)], indexed from 0 as in numpy
BlockVector(bs, n) == [i \in 0 .. n - 1 |-> bs * i]

\* np.meshgrid(width_vector, height_vector): two arrays of shape
\* (len(height_vector), len(width_vector)), the first repeating width_vector
\* along every row, the second repeating height_vector down every column
MeshGrid(wv, hv) ==
    << [j \in DOMAIN hv |-> [i \in DOMAIN wv |-> wv[i]]],
       [j \in DOMAIN hv |-> [i \in DOMAIN wv |-> hv[j]]] >>

\* np.array(m).T for m of shape (2, rows, columns): the axes reversed, shape
\* (columns, rows, 2)
TransposeSwapsPair(m, cols, rows) ==
    [i \in 0 .. cols - 1 |-> [j \in 0 .. rows - 1 |-> <<m[2][j][i], m[1][j][i]>>]]
Transpose(m, cols, rows) ==
    [i \in 0 .. cols - 1 |-> [j \in 0 .. rows - 1 |-> <<m[1][j][i], m[2][j][i]>>]]

\* Grid._set_grid
SetGrid(bs, cols, rows) ==
    Transpose(MeshGrid(BlockVector(bs, cols), BlockVector(bs, rows)), cols, rows)

\* Grid.__getitem__((c, r)): self._grid[c, r]
GetItem(g, c, r) == g.grid_array[c][r]

\* the arguments of a call Grid(width, height, block_size), all positive
GridInit ==
    /\ game = "grid"
    /\ op = "init"
    /\ error = "none"
    /\ pc = "play"
    /\ event = "none"
    /\ score = 0
    /\ high_score = 0
    /\ game_over = FALSE
    /\ SnakeIdle
    /\ FlappyIdle
    /\ \E w \in 1 .. MaxDim, h \in 1 .. MaxDim, bs \in 1 .. MaxDim :
          grid = [NoGrid EXCEPT !.args = <<w, h, bs>>]

\* Grid.__init__
GridConstruct ==
    /\ game = "grid"
    /\ op = "init"
    /\ LET w  == grid.args[1]
           h  == grid.args[2]
           bs == grid.args[3]
       IN  IF NotDivisible(w, h, bs)
           THEN /\ error' = "ValueError"
                /\ op' = "error"
                /\ UNCHANGED grid
           ELSE /\ grid' = [grid EXCEPT
                              !.made = TRUE,
                              !.block_size = bs,
                              !.game_width = w,
                              !.game_height = h,
                              !.width = IntDiv(w, bs),
                              !.height = IntDiv(h, bs),
                              !.grid_array = SetGrid(bs, IntDiv(w, bs),
                                                     IntDiv(h, bs))]
                /\ op' = "Grid"
                /\ UNCHANGED error
    /\ UNCHANGED <<game, score, high_score, game_over, pc, event>>
    /\ UNCHANGED snakeVars
    /\ UNCHANGED flappyVars

\* grid[c, r] for a cell of the grid
GridGetItem(c, r) ==
    /\ game = "grid"
    /\ grid.made
    /\ c \in 0 .. grid.width - 1
    /\ r \in 0 .. grid.height - 1
    /\ grid' = [grid EXCEPT !.item = <<c, r>>, !.pixel = GetItem(grid, c, r)]
    /\ op' = "getitem"
    /\ UNCHANGED <<game, error, score, high_score, game_over, pc, event>>
    /\ UNCHANGED snakeVars
    /\ UNCHANGED flappyVars

GridNext ==
    \/ GridConstruct
    \/ \E c \in 0 .. MaxDim - 1, r \in 0 .. MaxDim - 1 : GridGetItem(c, r)

SpecGrid == GridInit /\ [][GridNext]_vars

---------------------------------------------------------------------------
(* Either game.                                                             *)

Init == SnakeInit \/ FlappyInit

Next == SnakeNext \/ FlappyNext

Spec == Init /\ [][Next]_vars


---------------------------------------------------------------------------
(* Properties.                                                              *)

\* C1: Snake: with a body longer than 1, whatever set_direction requests came
\* between two ticks, the next update_location never moves the head into the
\* second body segment body[1] (wraparound included).
C1_NeverMovesIntoSecondSegment ==
    [][(game = "snake" /\ op' = "update" /\ Len(body) > 1)
          => body'[1] # body[2]]_vars

\* C2: Snake: in every state, the initial one and the one after a restart
\* included, the food's cell is not a cell of the snake body.
C2_FoodNotInBody ==
    game = "snake" => food \notin Range(body)

\* C3: Flappy: after every call of set_speed_and_size(S) the block speed is
\* min(BLOCK_MAX_SPEED, BLOCK_STARTING_SPEED + S div BLOCK_SPEED_INCREMENT).
C3_SpeedIsClampedCurve ==
    (game = "curve" /\ op = "set_speed_and_size") =>
        LET curve == BLOCK_STARTING_SPEED + (score \div BLOCK_SPEED_INCREMENT)
        IN  /\ speed = IF curve < BLOCK_MAX_SPEED THEN curve ELSE BLOCK_MAX_SPEED
            /\ speed <= BLOCK_MAX_SPEED

\* C4: Flappy: after every call of set_speed_and_size(S) the gap size is
\* max(minGapSize, maxGapSize - S * birdHeight / GAP_DECREASE_DENOMINATOR),
\* minGapSize = birdHeight * 2.5 and maxGapSize = birdHeight * 6; both sides
\* are scaled by GAP_DECREASE_DENOMINATOR * 2 to stay in the integers.
C4_GapIsClampedCurve ==
    (game = "curve" /\ op = "set_speed_and_size") =>
        LET scale  == GAP_DECREASE_DENOMINATOR * GAP_MIN_MULTIPLIER_DEN
            minGap == bird_height * GAP_MIN_MULTIPLIER_NUM * GAP_DECREASE_DENOMINATOR
            curve  == GAP_MIN_MULTIPLIER_DEN *
                      (bird_height * GAP_START_MULTIPLIER * GAP_DECREASE_DENOMINATOR
                       - score * bird_height)
        IN  /\ scale * gap_size = IF curve > minGap THEN curve ELSE minGap
            /\ scale * gap_size >= minGap

\* the bird rectangle lies fully inside [0,GAME_WIDTH] x [0,GAME_HEIGHT]
BirdInsidePlayfield ==
    /\ 0 <= BIRD_X /\ BIRD_X + bird_width <= GAME_WIDTH
    /\ 0 <= bird_y /\ bird_y + bird_height <= GAME_HEIGHT

\* C5: Flappy: at the end of a tick in which the bird rectangle does not lie
\* fully inside the playfield rectangle, game_over is True.
C5_OutsidePlayfieldEndsRound ==
    (game = "flappy" /\ op = "update" /\ ~BirdInsidePlayfield) => game_over

\* the bird's and a block's extents overlap in a stretch of positive length
\* on both axes: overlap area > 0
BirdOverlapsArea(y0, y1) ==
    /\ blocks_x < BIRD_X + bird_width /\ BIRD_X < blocks_x + BLOCK_WIDTH
    /\ y0 < bird_y + bird_height /\ bird_y < y1

\* the bird and a block meet in an edge or a corner only: on one axis the
\* extents end where the other's begin, on the other axis they are not apart
BirdTouchesOnly(y0, y1) ==
    LET meetX  == blocks_x = BIRD_X + bird_width \/ BIRD_X = blocks_x + BLOCK_WIDTH
        meetY  == y0 = bird_y + bird_height \/ bird_y = y1
        apartX == blocks_x > BIRD_X + bird_width \/ BIRD_X > blocks_x + BLOCK_WIDTH
        apartY == y0 > bird_y + bird_height \/ bird_y > y1
    IN  \/ meetX /\ ~apartY
        \/ meetY /\ ~apartX

BirdOverlapsABlock ==
    \/ BirdOverlapsArea(0, blocks_y1)
    \/ BirdOverlapsArea(blocks_y1 + gap_size, GAME_HEIGHT)

BirdTouchesABlockOnly ==
    /\ ~BirdOverlapsABlock
    /\ \/ BirdTouchesOnly(0, blocks_y1)
       \/ BirdTouchesOnly(blocks_y1 + gap_size, GAME_HEIGHT)

\* C6 as stated: Flappy: when the bird rectangle, inside the playfield, merely
\* shares an edge or a corner with a block rectangle (zero overlap area),
\* detect_collision leaves game_over False.
C6_TouchingIsNoCollision ==
    (game = "flappy" /\ op = "update" /\ BirdInsidePlayfield
        /\ BirdTouchesABlockOnly) => ~game_over

\* C6 as amended: Flappy: with the bird inside the playfield, detect_collision
\* sets game_over exactly when the bird rectangle and a block rectangle have a
\* point in common: an overlap of area > 0, or only a shared edge or corner.
C6_TouchingIsCollision ==
    (game = "flappy" /\ op = "update" /\ BirdInsidePlayfield) =>
        (game_over <=> (BirdOverlapsABlock \/ BirdTouchesABlockOnly))

C6_Witness ==
    /\ game = "flappy" /\ op = "update" /\ BirdInsidePlayfield
    /\ BirdTouchesABlockOnly
    /\ game_over

\* C7: both games: high_score never decreases, high_score >= score in every
\* state, and restart sets score to 0 and leaves high_score unchanged.
C7_HighScoreMonotone ==
    /\ [](high_score >= score)
    /\ [][high_score' >= high_score]_vars
    /\ [][op' = "restart" => (high_score' = high_score /\ score' = 0)]_vars

C7_Witness ==
    /\ op = "restart"
    /\ high_score >= 1
    /\ score = 0

\* C8: Snake: a tick sets game_over exactly when, after the push and the pop
\* (or no pop, on food), the new head also appears at a body index >= 1; the
\* colliding head stays at body[0]; moving into the cell the tail vacates in
\* the same tick is no collision.
C8_CollisionAfterPop ==
    [][(game = "snake" /\ op' = "update") =>
        LET head == NewHead(body[1], direction)
        IN  /\ body'[1] = head
            /\ game_over' <=> (\E i \in 2 .. Len(body') : body'[i] = head)
            /\ (/\ head # food
                /\ head = body[Len(body)]
                /\ \A i \in 1 .. Len(body) - 1 : body[i] # head) => ~game_over'
    ]_vars

C8_Witness ==
    /\ game = "snake" /\ op = "update"
    /\ game_over
    /\ \E i \in 2 .. Len(body) : body[i] = body[1]

\* C9: Snake: every tick, a round-ending one included, leaves the body one
\* longer if the new head lands on the food cell and as long as before
\* otherwise.
C9_GrowthOnFood ==
    [][(game = "snake" /\ op' = "update") =>
        Len(body') = Len(body) + (IF body'[1] = food THEN 1 ELSE 0)]_vars

C9_Witness ==
    /\ game = "snake" /\ op = "update"
    /\ Len(body) > 1
    /\ score = Len(body) - 1

\* delta(direction) as the specification lists it
C10_Delta(dir) ==
    IF dir = K_UP THEN <<0, -1>>
    ELSE IF dir = K_DOWN THEN <<0, 1>>
    ELSE IF dir = K_LEFT THEN <<-1, 0>>
    ELSE <<1, 0>>

\* C10: Snake: each tick the new head is the old head plus delta(direction),
\* taken modulo the grid size on each axis; every body cell lies in
\* [0,size) x [0,size); three moves UP from any cell end 3 rows up modulo the
\* grid size, in the same column.
C10_ToroidalMove ==
    /\ [](game = "snake" => \A i \in 1 .. Len(body) : body[i] \in Cells)
    /\ [](\A c \in Cells :
            NewHead(NewHead(NewHead(c, K_UP), K_UP), K_UP)
                = <<c[1], (c[2] - 3) % GRID_SIZE>>)
    /\ [][(game = "snake" /\ op' = "update") =>
            body'[1] = <<(body[1][1] + C10_Delta(direction)[1]) % GRID_SIZE,
                         (body[1][2] + C10_Delta(direction)[2]) % GRID_SIZE>>]_vars

\* a length-1 snake heading UP has just moved from row 0 to row size-1
C10_Witness ==
    /\ game = "snake" /\ op = "update"
    /\ Len(body) = 1
    /\ direction = K_UP
    /\ body[1][2] = GRID_SIZE - 1

\* the cells of the body are pairwise distinct
BodyCellsDistinct ==
    \A i, j \in 1 .. Len(body) : i # j => body[i] # body[j]

\* C11: Snake: in every state where game_over is False the cells of the body
\* are pairwise distinct; a duplicate cell exists only in a state in which
\* game_over has been set (the head on the cell it ran into).
C11_BodyCellsDistinct ==
    game = "snake" =>
        /\ ~game_over => BodyCellsDistinct
        /\ ~BodyCellsDistinct =>
              (/\ game_over
               /\ \E i \in 2 .. Len(body) : body[i] = body[1]
               /\ \A i, j \in 2 .. Len(body) : i # j => body[i] # body[j])

\* the tick has just ended the round: the head duplicates a body cell
C11_Witness ==
    /\ game = "snake" /\ op = "update"
    /\ game_over
    /\ ~BodyCellsDistinct
    /\ Len(body) = MaxLen

\* C12: Snake: when the new head lands on the food cell, the same tick moves
\* the food to a grid cell that no cell of the grown body occupies (the new
\* head included), and the tail is not removed.
C12_FoodRelocatedOffGrownBody ==
    [][(game = "snake" /\ op' = "update"
          /\ NewHead(body[1], direction) = food) =>
        /\ body' = <<food>> \o body
        /\ food' \in Cells
        /\ food' # body'[1]
        /\ \A i \in 1 .. Len(body') : body'[i] # food'
    ]_vars

\* a snake that has eaten twice, the food off its body
C12_Witness ==
    /\ game = "snake" /\ op = "update"
    /\ Len(body) = 3
    /\ score = 2
    /\ \A i \in 1 .. Len(body) : body[i] # food

\* C13: both games: every call of update starts with game_over False; the
\* wait of replay() is left for the play loop only by a KEYDOWN event; a
\* KEYUP event or no event leaves it waiting with the round untouched; a
\* KEYDOWN event during the wait leads to restart and back to playing.
C13_WaitLeftOnlyByKeyDown ==
    /\ [][op' = "update" => (~game_over /\ pc = "play")]_vars
    /\ [](pc = "play" => ~game_over)
    /\ [][(pc = "replay" /\ pc' # "replay") =>
            (event' = "KEYDOWN" /\ op' = "restart")]_vars
    /\ [][(pc = "replay" /\ event' \in {"KEYUP", "none"}) =>
            (/\ pc' = "replay" /\ game_over'
             /\ UNCHANGED <<score, high_score, error, snakeVars, flappyVars>>)]_vars
    /\ [][(pc = "replay" /\ event' = "KEYDOWN") =>
            (op' = "restart" /\ pc' = "play" /\ ~game_over')]_vars

\* a KEYDOWN has just ended the wait that followed a round with a point
C13_Witness ==
    /\ op = "restart"
    /\ event = "KEYDOWN"
    /\ pc = "play"
    /\ ~game_over
    /\ high_score >= 1

\* C14: both games: restart leaves score 0, game_over False and fresh
\* entities (Snake: a body of one cell, direction UP, a food cell; Flappy: the
\* bird at its first y, the blocks at x = GAME_WIDTH with speed 0, gap size
\* GAME_HEIGHT / 2 and the first y1), and changes neither high_score nor
\* anything else.
C14_RestartReinitializes ==
    /\ [](op = "restart" =>
            /\ score = 0
            /\ ~game_over
            /\ game = "snake" =>
                  (/\ Len(body) = 1 /\ body[1] \in Cells
                   /\ direction = K_UP
                   /\ food \in Cells)
            /\ game = "flappy" =>
                  (/\ 10 * bird_y = 4 * GAME_HEIGHT
                   /\ blocks_x = GAME_WIDTH
                   /\ speed = 0
                   /\ 2 * gap_size = GAME_HEIGHT
                   /\ 2 * blocks_y1 \in {GAME_HEIGHT - bird_height,
                                         GAME_HEIGHT - bird_height - 1}))
    /\ [][op' = "restart" =>
            UNCHANGED <<high_score, game, error, bird_width, bird_height,
                        move_up, grid>>]_vars

\* a restart after a round in which the snake had grown
C14_Witness ==
    /\ game = "snake" /\ op = "restart"
    /\ Len(body) = 1
    /\ high_score = MaxLen - 1
    /\ score = 0

\* C15: both games: from one tick to the next the score of a round never
\* decreases; it goes down, to 0, only through restart.
C15_ScoreMonotoneInRound ==
    [][/\ op' # "restart" => score' >= score
       /\ score' < score => (op' = "restart" /\ score' = 0)]_vars

\* a Flappy tick with a point scored, the round going on
C15_Witness ==
    /\ game = "flappy" /\ op = "update"
    /\ score >= 1
    /\ ~game_over

\* C16: Flappy: each call of Blocks.update_location subtracts the current
\* speed from x and leaves y1 unchanged when x + width > 0; otherwise it
\* succeeds in resetting x to GAME_WIDTH and drawing a y1 within
\* [gap_size, GAME_HEIGHT - gap_size], the gap inside the playfield.
C16_RecycleAlwaysSucceeds ==
    [][(game = "flappy" /\ pc = "play" /\ op' \in {"update", "error"}
          /\ error' # "UnboundLocalError") =>
        IF blocks_x + BLOCK_WIDTH > 0
        THEN /\ blocks_x' = blocks_x - speed'
             /\ blocks_y1' = blocks_y1
        ELSE /\ error' = "none"
             /\ blocks_x' = GAME_WIDTH
             /\ gap_size' <= blocks_y1'
             /\ blocks_y1' <= GAME_HEIGHT - gap_size'
             /\ 0 <= blocks_y1'
             /\ blocks_y1' + gap_size' <= GAME_HEIGHT
    ]_vars

\* the body of the reverse-direction example: head (5,5), second cell (5,6)
C17_Body == << <<5, 5>>, <<5, 6>> >>

C18_IsMultiple(n, bs) == \E k \in 1 .. n : n = k * bs

\* C18: Grid: the construction Grid(width, height, block_size) with positive
\* arguments fails with ValueError and creates no grid whenever width or
\* height is not an exact multiple of block_size, and succeeds whenever both
\* are.
C18_ConstructionFailsIffNotMultiple ==
    (game = "grid" /\ op # "init") =>
        LET w  == grid.args[1]
            h  == grid.args[2]
            bs == grid.args[3]
        IN  IF C18_IsMultiple(w, bs) /\ C18_IsMultiple(h, bs)
            THEN /\ error = "none"
                 /\ grid.made
                 /\ grid.game_width = w /\ grid.game_height = h
                 /\ grid.block_size = bs
            ELSE /\ error = "ValueError"
                 /\ grid = [NoGrid EXCEPT !.args = <<w, h, bs>>]

\* the width is a multiple of the block size, the height is not, and the
\* construction has failed
C18_Witness ==
    /\ game = "grid" /\ op = "error"
    /\ error = "ValueError"
    /\ grid.args[1] % grid.args[3] = 0
    /\ grid.args[2] % grid.args[3] # 0
    /\ ~grid.made

\* C19: Grid: for every constructed Grid, columns = width / block_size and
\* rows = height / block_size, and for every cell (c, r) with 0 <= c < columns
\* and 0 <= r < rows, grid[c, r] is (c * block_size, r * block_size).
C19_GetItemIsCellTimesBlockSize ==
    (game = "grid" /\ grid.made) =>
        /\ grid.width * grid.block_size = grid.game_width
        /\ grid.height * grid.block_size = grid.game_height
        /\ \A c \in 0 .. grid.width - 1, r \in 0 .. grid.height - 1 :
              GetItem(grid, c, r) = <<c * grid.block_size, r * grid.block_size>>
        /\ op = "getitem" =>
              grid.pixel = <<grid.item[1] * grid.block_size,
                             grid.item[2] * grid.block_size>>

\* cell (1, 2) of a grid of 2 columns and 3 rows of blocks of 2 pixels
C19_Witness ==
    /\ game = "grid" /\ op = "getitem"
    /\ grid.width = 2 /\ grid.height = 3 /\ grid.block_size = 2
    /\ grid.item = <<1, 2>>
    /\ grid.pixel = <<2, 4>>

\* C20: Snake: a KEYDOWN whose key is none of UP, DOWN, LEFT, RIGHT is
\* ignored: set_direction returns without error and leaves the direction, the
\* body, the food and the score unchanged.
C20_UnknownKeyIgnored ==
    [][(game = "snake" /\ op' = "set_direction" /\ event' = K_OTHER) =>
        /\ error' = "none"
        /\ UNCHANGED <<direction, body, food, score, high_score, game_over, pc>>
    ]_vars

\* the request with the unknown key has been made on a snake of two cells
\* heading LEFT
C20_Witness ==
    /\ game = "snake" /\ op = "set_direction"
    /\ event = K_OTHER
    /\ Len(body) = 2
    /\ direction = K_LEFT
    /\ error = "none"

\* C21: Snake: Food.set_location has no retry bound (a rejected draw always
\* leaves the loop running) and, under fair random choice, returns exactly
\* when some grid cell is not occupied by the body: then it ends on such a
\* cell; when the body occupies every cell it never returns.
C21_RelocationTerminatesIffFreeCell ==
    /\ [](game = "food" /\ Range(body) # Cells
            => <>(pc = "play" /\ food \notin Range(body)))
    /\ [](game = "food" /\ Range(body) = Cells => pc = "set_location")
    /\ [][(game = "food" /\ op' = "rejected") => pc' = "set_location"]_vars
    /\ [](game = "food" /\ pc = "play" => food \notin Range(body))

\* the body fills the grid, a draw has been rejected and the loop goes on
C21_Witness ==
    /\ game = "food" /\ op = "rejected"
    /\ Range(body) = Cells
    /\ pc = "set_location"

\* C22: Snake: in every state, the one right after a tick that ended the
\* round included (Game.update skips the score assignment there), score is
\* len(snake.body) - 1.
C22_ScoreIsLengthMinusOne ==
    game = "snake" => score = Len(body) - 1

\* a tick has just ended the round of a snake of three cells
C22_Witness ==
    /\ game = "snake" /\ op = "update"
    /\ game_over
    /\ Len(body) = 3
    /\ score = 2

\* C23: Flappy: the score rises by at most 1 per tick, and by 1 in exactly
\* the tick in which the right edge of the blocks (x + width) passes the
\* bird's x; between spawn and recycle x only decreases and a recycle comes
\* only after the edge has passed, so every pass scores once, never 0 times
\* and never twice, also when the speed changes right after the score.
C23_OnePointPerPass ==
    [][(game = "pass" /\ op' = "tick") =>
        /\ score' \in {score, score + 1}
        /\ (score' = score + 1) <=>
              (/\ blocks_x + BLOCK_WIDTH > BIRD_X
               /\ blocks_x' + BLOCK_WIDTH <= BIRD_X)
        /\ IF blocks_x + BLOCK_WIDTH > 0
           THEN blocks_x' < blocks_x
           ELSE blocks_x' = GAME_WIDTH /\ blocks_x + BLOCK_WIDTH <= BIRD_X
    ]_vars

\* the tick after the third point: the speed has just changed from 5 to 6 and
\* the edge is less than two steps past the bird
C23_Witness ==
    /\ game = "pass" /\ op = "tick"
    /\ score = 3
    /\ speed = BLOCK_STARTING_SPEED + 1
    /\ blocks_x + BLOCK_WIDTH <= BIRD_X
    /\ blocks_x + BLOCK_WIDTH + 2 * speed > BIRD_X

\* C24: Flappy: in the play loop update is never called with an unassigned
\* move_up, the first frame with no event pending included.
C24_MoveUpAlwaysAssigned ==
    game = "flappy" => error # "UnboundLocalError"

===========================================================================
